---- MODULE Spec2Model ----
(***************************************************************************)
(* Connect4 search benchmark (reports/simple_benchmark.py) and the search  *)
(* engine it drives.  The harness (CountingMinimax, CountingAlphaBeta,     *)
(* benchmark) is translated from the source.  The board model, the         *)
(* heuristic evaluator and the two recursive searches (MinimaxAI,          *)
(* MinimaxABAI, Connect4Game) are imported by the source but are not part  *)
(* of it; they are modelled from sections 3 and 4 of spec.md.              *)
(*                                                                         *)
(* The recursion is unfolded into an explicit call stack: one step per     *)
(* invocation entry, per child move, per child return and per loop end, so *)
(* that the in-place mutation of the board and the node counter are        *)
(* visible between steps.                                                  *)
(***************************************************************************)
EXTENDS Integers, Sequences, FiniteSets, TLC

\* ------------------------------------------------------------------------
\* Board model (spec.md 3, 4.1).  board[r][c], row 0 is the top row.
\* ------------------------------------------------------------------------
Rows == 6
Cols == 7
Connect == 4

PLAYER1 == 1
PLAYER2 == 2

RowIdx == 0 .. (Rows - 1)
ColIdx == 0 .. (Cols - 1)

EmptyBoard == [r \in RowIdx |-> [c \in ColIdx |-> 0]]

Other(p) == 3 - p

MaxOf(S) == CHOOSE x \in S : \A y \in S : y <= x
MinOf(S) == CHOOSE x \in S : \A y \in S : x <= y

\* Number of tokens in a column (its occupancy count).
Height(b, col) == Cardinality({r \in RowIdx : b[r][col] # 0})

\* is_valid_move(column): 0 <= column < 7 and the column's top cell is empty.
is_valid_move(b, col) == col \in ColIdx /\ b[0][col] = 0

is_full(b) == \A c \in ColIdx : ~is_valid_move(b, c)

\* Mutation of DropRow: the token is put in the topmost empty cell.
DropRowTop(b, col) == MinOf({r \in RowIdx : b[r][col] = 0})

\* The row a token dropped into col comes to rest in: the lowest empty cell.
DropRow(b, col) == MaxOf({r \in RowIdx : b[r][col] = 0})

\* The row undo_move clears: the topmost occupied cell of the column.
TopRow(b, col) == MinOf({r \in RowIdx : b[r][col] # 0})

\* make_move(column, player) -> bool: no-op returning false when invalid,
\* otherwise places the token in the lowest empty cell and returns true.
make_move(b, col, p) ==
    IF is_valid_move(b, col)
    THEN [ok |-> TRUE, board |-> [b EXCEPT ![DropRow(b, col)][col] = p]]
    ELSE [ok |-> FALSE, board |-> b]

\* Mutation of undo_move: clears the bottom token of the column.
undo_move_bottom(b, col) ==
    IF Height(b, col) = 0
    THEN [raised |-> TRUE, board |-> b]
    ELSE [raised |-> FALSE, board |-> [b EXCEPT ![Rows - 1][col] = 0]]

\* undo_move(column): removes the top token of the column; raises when the
\* column is empty.
undo_move(b, col) ==
    IF Height(b, col) = 0
    THEN [raised |-> TRUE, board |-> b]
    ELSE [raised |-> FALSE, board |-> [b EXCEPT ![TopRow(b, col)][col] = 0]]

\* The windows of four contiguous cells, in the four orientations.
NHoriz == Rows * (Cols - Connect + 1)
NVert  == (Rows - Connect + 1) * Cols
NDiag  == (Rows - Connect + 1) * (Cols - Connect + 1)
NWindows == NHoriz + NVert + 2 * NDiag

Line(r, c, dr, dc) == [k \in 1 .. Connect |-> <<r + (k - 1) * dr, c + (k - 1) * dc>>]

Windows ==
    [i \in 1 .. NWindows |->
        IF i <= NHoriz
        THEN Line((i - 1) \div (Cols - Connect + 1),
                  (i - 1) % (Cols - Connect + 1), 0, 1)
        ELSE IF i <= NHoriz + NVert
        THEN Line((i - NHoriz - 1) \div Cols, (i - NHoriz - 1) % Cols, 1, 0)
        ELSE IF i <= NHoriz + NVert + NDiag
        THEN Line((i - NHoriz - NVert - 1) \div (Cols - Connect + 1),
                  (i - NHoriz - NVert - 1) % (Cols - Connect + 1), 1, 1)
        ELSE Line((Connect - 1) + (i - NHoriz - NVert - NDiag - 1) \div (Cols - Connect + 1),
                  (i - NHoriz - NVert - NDiag - 1) % (Cols - Connect + 1), -1, 1)]

CountIn(b, w, v) == Cardinality({k \in 1 .. Connect : b[w[k][1]][w[k][2]] = v})

HasFour(b, p) ==
    \E i \in 1 .. NWindows :
        \A k \in 1 .. Connect : b[Windows[i][k][1]][Windows[i][k][2]] = p

DRAW == 3

\* check_winner() -> 0 (none), 1, 2, or DRAW (board full and no winner).
check_winner(b) ==
    IF HasFour(b, PLAYER1) THEN PLAYER1
    ELSE IF HasFour(b, PLAYER2) THEN PLAYER2
    ELSE IF is_full(b) THEN DRAW
    ELSE 0

is_game_over(b) == check_winner(b) # 0

\* ------------------------------------------------------------------------
\* Heuristic evaluator (spec.md 4.2): windows of four, partial alignments
\* rewarded, the opponent's penalised, the centre column weighted; a win or
\* loss is scored at a magnitude no heuristic sum reaches.
\* ------------------------------------------------------------------------
WinScore == 1000000
Inf == 10000000

score_window(b, w, p) ==
    LET cp == CountIn(b, w, p)
        ce == CountIn(b, w, 0)
        co == CountIn(b, w, Other(p))
    IN  (IF cp = 4 THEN 100
         ELSE IF cp = 3 /\ ce = 1 THEN 5
         ELSE IF cp = 2 /\ ce = 2 THEN 2
         ELSE 0)
        - (IF co = 3 /\ ce = 1 THEN 4 ELSE 0)

RECURSIVE SumWindows(_, _, _)
SumWindows(b, p, i) ==
    IF i = 0 THEN 0
    ELSE score_window(b, Windows[i], p) + SumWindows(b, p, i - 1)

evaluate(b, p) ==
    3 * Cardinality({r \in RowIdx : b[r][Cols \div 2] = p})
    + SumWindows(b, p, NWindows)

\* The score of a position where the recursion stops: a terminal outcome
\* from the searching player's side, else the evaluator's score.
LeafScore(b, player_id) ==
    LET w == check_winner(b)
    IN  IF w = player_id THEN WinScore
        ELSE IF w = Other(player_id) THEN -WinScore
        ELSE IF w = DRAW THEN 0
        ELSE evaluate(b, player_id)

\* The recursion stops at a terminal position or at depth 0.
IsLeaf(b, depth) == is_game_over(b) \/ depth <= 0

\* The smallest legal column greater than col (columns are tried in
\* ascending order), or Cols when there is none.
NextValid(b, col) ==
    LET S == {c \in ColIdx : c > col /\ is_valid_move(b, c)}
    IN  IF S = {} THEN Cols ELSE MinOf(S)

\* ------------------------------------------------------------------------
\* Positions.  A position is reached by players 1 and 2 moving in turn from
\* the empty board.
\* ------------------------------------------------------------------------
RECURSIVE PlayMoves(_, _, _)
PlayMoves(b, moves, p) ==
    IF moves = <<>> THEN b
    ELSE LET m == make_move(b, Head(moves), p)
         IN  IF m.ok
             THEN PlayMoves(m.board, Tail(moves), Other(p))
             ELSE PlayMoves(b, Tail(moves), p)

Position(moves) == PlayMoves(EmptyBoard, moves, PLAYER1)

\* ------------------------------------------------------------------------
\* State
\* ------------------------------------------------------------------------
VARIABLES
    pc,               \* position of benchmark()
    depths,           \* the depths benchmark() loops over
    di,               \* index of the current depth
    boards,           \* the list generate_boards() returned, searched in place
    genBoards,        \* history: boards as generate_boards() returned it
    bi,               \* index of the current board
    minimax_nodes,    \* per-depth total of ai1.nodes
    alphabeta_nodes,  \* per-depth total of ai2.nodes
    results,          \* one record per finished depth
    ai1,              \* the CountingMinimax instance
    ai2,              \* the CountingAlphaBeta instance
    res1,             \* what ai1.get_move(board) returned
    res2,             \* what ai2.get_move(board) returned
    stack,            \* activation records of the running search
    mode,             \* "idle", "call", "loop" or "ret"
    call,             \* arguments of the invocation being entered
    ret,              \* value of the invocation that returned
    calls,            \* history: invocations entered by the current search
    prunes,           \* history: times alpha >= beta held after a child
    skipped,          \* history: prunes that cut off a legal sibling
    readings1,        \* history: ai1.nodes as read for the current depth
    readings2,        \* history: ai2.nodes as read for the current depth
    passed1,          \* history: the board ai1.get_move was handed
    passed2,          \* history: the board ai2.get_move was handed
    game,             \* generate_boards(): the Connect4Game of the current sample
    gn,               \* generate_boards(): n, the number of samples asked for
    gi,               \* generate_boards(): samples finished
    gk,               \* generate_boards(): iterations left in the move loop
    lastMove,         \* history: the last make_move call of generate_boards()
    tried,            \* history: move-loop iterations run for the current sample
    tpc,              \* position of train_resumable()
    model_path,       \* train_resumable(): the model file to resume from
    target_total_games, \* train_resumable(): the total asked for
    train_mode,       \* train_resumable(): mode
    epsilon_decay,    \* train_resumable(): epsilon_decay as the f-string prints it
    already_trained,  \* what read_games_from_filename(model_path) returned
    remaining,        \* games left to train
    train_calls,      \* history: num_games of every rl.train call
    save_calls,       \* history: path of every rl.save_model call
    named_total,      \* history: the count model_path was named after, or -1
    dpc,              \* position of demo.py
    choice,           \* the last line read by input(), stripped
    ai_player,        \* human_vs_ai(): ai_player
    files,            \* choose_qtable(): the number of .pkl files in qtables/
    printed,          \* the last message printed
    games             \* history: the Connect4Game objects constructed and run

harness == <<pc, depths, di, genBoards, bi, minimax_nodes, alphabeta_nodes, results,
             readings1, readings2, passed1, passed2>>
engine  == <<stack, mode, call, ret>>
history == <<calls, prunes, skipped>>
sampler == <<game, gn, gi, gk, lastMove, tried>>
trainer == <<tpc, model_path, target_total_games, train_mode, epsilon_decay,
             already_trained, remaining, train_calls, save_calls, named_total>>
demo    == <<dpc, choice, ai_player, files, printed, games>>
others  == <<sampler, trainer, demo>>
bench   == <<harness, boards, ai1, ai2, res1, res2, engine, history>>
vars == <<pc, depths, di, boards, genBoards, bi, minimax_nodes, alphabeta_nodes,
          results, ai1, ai2, res1, res2, stack, mode, call, ret, calls, prunes,
          skipped, readings1, readings2, passed1, passed2, others>>

Unbound == [player_id |-> 0, depth |-> 0, nodes |-> -1]
NoCall  == [depth |-> 0, is_maximizing |-> TRUE, alpha |-> 0, beta |-> 0]
NoRet   == [score |-> 0, col |-> -1]

\* Mutation of BoardArg: the Alpha-Beta search is handed the next board.
BoardArgShift(i, ab) == IF ab THEN (i % Len(boards)) + 1 ELSE i

\* The index of the board handed to get_move (simple_benchmark.py 52, 59):
\* the loop variable, for both variants.
BoardArg(i, ab) == i

\* The board the running search works on, and the instance running it.
BoardIdx == BoardArg(bi, pc = "ab")
Board == boards[BoardIdx]
Active == IF pc = "mm" THEN ai1 ELSE ai2

\* ------------------------------------------------------------------------
\* Instrumented instances (simple_benchmark.py 13-27)
\* ------------------------------------------------------------------------
CountingMinimax(player_id, depth) ==
    [player_id |-> player_id, depth |-> depth, nodes |-> 0]

\* Mutation of CountingAlphaBeta: depth is not handed on, the default is used.
CountingAlphaBetaDefaultDepth(player_id, depth) ==
    [player_id |-> player_id, depth |-> 4, nodes |-> 0]

CountingAlphaBeta(player_id, depth) ==
    [player_id |-> player_id, depth |-> depth, nodes |-> 0]

\* Mutation of CountingMinimax_minimax: the override forgets to count.
CountingMinimax_nocount(ai) == ai

\* CountingMinimax.minimax: self.nodes += 1, then the inherited search.
CountingMinimax_minimax(ai) == [ai EXCEPT !.nodes = @ + 1]

\* Mutation of CountingAlphaBeta_minimax_ab: the override forgets to count.
CountingAlphaBeta_nocount(ai) == ai

\* CountingAlphaBeta.minimax_ab: self.nodes += 1, then the inherited search.
CountingAlphaBeta_minimax_ab(ai) == [ai EXCEPT !.nodes = @ + 1]

\* ------------------------------------------------------------------------
\* The searches (spec.md 4.3, 4.4)
\* ------------------------------------------------------------------------
\* get_move(board): the root invocation, maximizing, with the full window.
RootCall(ai) ==
    [depth |-> ai.depth, is_maximizing |-> TRUE, alpha |-> -Inf, beta |-> Inf]

NewFrame(c) ==
    [depth |-> c.depth, is_maximizing |-> c.is_maximizing,
     alpha |-> c.alpha, beta |-> c.beta,
     best |-> IF c.is_maximizing THEN -Inf ELSE Inf,
     best_col |-> -1, col |-> -1]

ChildCall(f) ==
    [depth |-> f.depth - 1, is_maximizing |-> ~f.is_maximizing,
     alpha |-> f.alpha, beta |-> f.beta]

Mover(f, player_id) == IF f.is_maximizing THEN player_id ELSE Other(player_id)

Max2(a, b) == IF a >= b THEN a ELSE b
Min2(a, b) == IF a <= b THEN a ELSE b

\* Minimax keeps the best score, the first column reaching it winning ties.
KeepBest(f, score) ==
    IF f.is_maximizing
    THEN IF score > f.best THEN [f EXCEPT !.best = score, !.best_col = f.col] ELSE f
    ELSE IF score < f.best THEN [f EXCEPT !.best = score, !.best_col = f.col] ELSE f

\* Alpha-Beta also raises alpha (maximizing) or lowers beta (minimizing).
UpdateBounds(f, score) ==
    IF f.is_maximizing
    THEN [f EXCEPT !.alpha = Max2(@, score)]
    ELSE [f EXCEPT !.beta = Min2(@, score)]

AfterChild(f, score, ab) ==
    IF ab THEN UpdateBounds(KeepBest(f, score), score) ELSE KeepBest(f, score)

\* The pruning condition of the Alpha-Beta variant.
Cutoff(f) == f.alpha >= f.beta

Top == stack[Len(stack)]
Pop == SubSeq(stack, 1, Len(stack) - 1)
SetTop(f) == [stack EXCEPT ![Len(stack)] = f]

Searching == pc \in {"mm", "ab"}

Count ==
    /\ calls' = calls + 1
    /\ IF pc = "mm"
       THEN ai1' = CountingMinimax_minimax(ai1) /\ ai2' = ai2
       ELSE ai2' = CountingAlphaBeta_minimax_ab(ai2) /\ ai1' = ai1

\* An invocation that stops at once: terminal position or depth 0.
EnterLeaf ==
    /\ Searching /\ mode = "call"
    /\ IsLeaf(Board, call.depth)
    /\ Count
    /\ ret' = [score |-> LeafScore(Board, Active.player_id), col |-> -1]
    /\ mode' = "ret"
    /\ call' = NoCall
    /\ UNCHANGED <<harness, boards, res1, res2, stack, prunes, skipped>>
    /\ UNCHANGED others

\* An invocation that expands children.
EnterInternal ==
    /\ Searching /\ mode = "call"
    /\ ~IsLeaf(Board, call.depth)
    /\ Count
    /\ stack' = Append(stack, NewFrame(call))
    /\ mode' = "loop"
    /\ call' = NoCall
    /\ UNCHANGED <<harness, boards, res1, res2, ret, prunes, skipped>>
    /\ UNCHANGED others

\* The loop takes the next legal column: apply the move, recurse.
NextChild ==
    /\ Searching /\ mode = "loop"
    /\ LET c == NextValid(Board, Top.col)
           f == [Top EXCEPT !.col = c]
       IN  /\ c < Cols
           /\ boards' = [boards EXCEPT ![BoardIdx] = make_move(Board, c, Mover(f, Active.player_id)).board]
           /\ stack' = SetTop(f)
           /\ call' = ChildCall(f)
    /\ mode' = "call"
    /\ UNCHANGED <<harness, ai1, ai2, res1, res2, ret, history>>
    /\ UNCHANGED others

\* The loop is exhausted: the invocation returns its best score.
LoopEnd ==
    /\ Searching /\ mode = "loop"
    /\ NextValid(Board, Top.col) = Cols
    /\ ret' = [score |-> Top.best, col |-> Top.best_col]
    /\ stack' = Pop
    /\ mode' = "ret"
    /\ UNCHANGED <<harness, boards, ai1, ai2, res1, res2, call, history>>
    /\ UNCHANGED others

\* A child returned: undo the move, fold the score in, go on with the loop.
ChildReturn ==
    /\ Searching /\ mode = "ret" /\ stack # <<>>
    /\ LET f == AfterChild(Top, ret.score, pc = "ab")
       IN  /\ ~(pc = "ab" /\ Cutoff(f))
           /\ stack' = SetTop(f)
    /\ boards' = [boards EXCEPT ![BoardIdx] = undo_move(Board, Top.col).board]
    /\ mode' = "loop"
    /\ ret' = NoRet
    /\ UNCHANGED <<harness, ai1, ai2, res1, res2, call, history>>
    /\ UNCHANGED others

\* Mutation of ChildReturnPrune: the pruning return skips undo_move.
ChildReturnPruneNoUndo ==
    /\ Searching /\ mode = "ret" /\ stack # <<>>
    /\ pc = "ab"
    /\ LET f == AfterChild(Top, ret.score, TRUE)
       IN  /\ Cutoff(f)
           /\ ret' = [score |-> f.best, col |-> f.best_col]
           /\ prunes' = prunes + 1
           /\ skipped' = IF NextValid(Board, f.col) < Cols THEN skipped + 1 ELSE skipped
    /\ stack' = Pop
    /\ mode' = "ret"
    /\ UNCHANGED <<harness, boards, ai1, ai2, res1, res2, call, calls>>
    /\ UNCHANGED others

\* A child returned and alpha >= beta: undo the move, return at once.
ChildReturnPrune ==
    /\ Searching /\ mode = "ret" /\ stack # <<>>
    /\ pc = "ab"
    /\ LET f == AfterChild(Top, ret.score, TRUE)
           b == undo_move(Board, Top.col).board
       IN  /\ Cutoff(f)
           /\ boards' = [boards EXCEPT ![BoardIdx] = b]
           /\ ret' = [score |-> f.best, col |-> f.best_col]
           /\ prunes' = prunes + 1
           /\ skipped' = IF NextValid(b, f.col) < Cols THEN skipped + 1 ELSE skipped
    /\ stack' = Pop
    /\ mode' = "ret"
    /\ UNCHANGED <<harness, ai1, ai2, res1, res2, call, calls>>
    /\ UNCHANGED others

\* ------------------------------------------------------------------------
\* benchmark() (simple_benchmark.py 40-91).  Wall-clock times are left out.
\* ------------------------------------------------------------------------
DEPTHS == <<3, 4, 5>>

\* round(n / d, 0) for d > 0, halves to the even neighbour as round() does.
RoundDiv(n, d) ==
    LET q == n \div d
        r == n % d
    IN  IF 2 * r < d THEN q
        ELSE IF 2 * r > d THEN q + 1
        ELSE IF q % 2 = 0 THEN q ELSE q + 1

\* Mutation of AddNodes: the total is overwritten by the last reading.
AddNodesOverwrite(total, nodes) == nodes

\* minimax_nodes += ai1.nodes, alphabeta_nodes += ai2.nodes
AddNodes(total, nodes) == total + nodes

\* Mutation of ResultRow: the saving is taken as alphabeta minus minimax.
ResultRowSwapped(depth, mm, ab, n) ==
    [Depth |-> depth,
     Minimax_Nodes |-> mm \div n,
     AlphaBeta_Nodes |-> ab \div n,
     Nodes_Saved_Percent |-> RoundDiv((ab - mm) * 1000, mm)]

\* The row of one depth; Nodes_Saved_Percent is held in tenths of a percent.
ResultRow(depth, mm, ab, n) ==
    [Depth |-> depth,
     Minimax_Nodes |-> mm \div n,
     AlphaBeta_Nodes |-> ab \div n,
     Nodes_Saved_Percent |-> RoundDiv((mm - ab) * 1000, mm)]

\* for depth in [3, 4, 5]: the totals of the depth start at 0.
DepthLoop ==
    /\ pc = "depth" /\ di <= Len(depths)
    /\ minimax_nodes' = 0 /\ alphabeta_nodes' = 0
    /\ readings1' = <<>> /\ readings2' = <<>>
    /\ bi' = 1
    /\ pc' = "board"
    /\ UNCHANGED <<depths, di, boards, genBoards, results, passed1, passed2, ai1, ai2,
                   res1, res2, engine, history>>
    /\ UNCHANGED others

\* ai1 = CountingMinimax(1, depth); ai1.get_move(board) is entered.
NewMinimax ==
    /\ pc = "board" /\ bi <= Len(boards)
    /\ ai1' = CountingMinimax(PLAYER1, depths[di])
    /\ call' = RootCall(ai1')
    /\ mode' = "call"
    /\ calls' = 0 /\ prunes' = 0 /\ skipped' = 0
    /\ passed1' = boards[BoardArg(bi, FALSE)]
    /\ pc' = "mm"
    /\ UNCHANGED <<depths, di, boards, genBoards, bi, minimax_nodes, alphabeta_nodes,
                   results, readings1, readings2, passed2, ai2, res1, res2, stack, ret>>
    /\ UNCHANGED others

\* ai1.get_move(board) returns.
MinimaxReturn ==
    /\ pc = "mm" /\ mode = "ret" /\ stack = <<>>
    /\ res1' = ret
    /\ ret' = NoRet
    /\ mode' = "idle"
    /\ pc' = "mm_ret"
    /\ UNCHANGED <<depths, di, boards, genBoards, bi, minimax_nodes, alphabeta_nodes,
                   results, readings1, readings2, passed1, passed2, ai1, ai2, res2, stack,
                   call, history>>
    /\ UNCHANGED others

\* minimax_nodes += ai1.nodes
MinimaxAccum ==
    /\ pc = "mm_ret"
    /\ minimax_nodes' = AddNodes(minimax_nodes, ai1.nodes)
    /\ readings1' = Append(readings1, ai1.nodes)
    /\ pc' = "ab_new"
    /\ UNCHANGED <<depths, di, boards, genBoards, bi, alphabeta_nodes, results,
                   readings2, passed1, passed2, ai1, ai2, res1, res2, engine, history>>
    /\ UNCHANGED others

\* ai2 = CountingAlphaBeta(1, depth); ai2.get_move(board) is entered.
NewAlphaBeta ==
    /\ pc = "ab_new"
    /\ ai2' = CountingAlphaBeta(PLAYER1, depths[di])
    /\ call' = RootCall(ai2')
    /\ mode' = "call"
    /\ calls' = 0 /\ prunes' = 0 /\ skipped' = 0
    /\ passed2' = boards[BoardArg(bi, TRUE)]
    /\ pc' = "ab"
    /\ UNCHANGED <<depths, di, boards, genBoards, bi, minimax_nodes, alphabeta_nodes,
                   results, readings1, readings2, passed1, ai1, res1, res2, stack, ret>>
    /\ UNCHANGED others

\* ai2.get_move(board) returns.
AlphaBetaReturn ==
    /\ pc = "ab" /\ mode = "ret" /\ stack = <<>>
    /\ res2' = ret
    /\ ret' = NoRet
    /\ mode' = "idle"
    /\ pc' = "ab_ret"
    /\ UNCHANGED <<depths, di, boards, genBoards, bi, minimax_nodes, alphabeta_nodes,
                   results, readings1, readings2, passed1, passed2, ai1, ai2, res1, stack,
                   call, history>>
    /\ UNCHANGED others

\* alphabeta_nodes += ai2.nodes; the loop moves to the next board.
AlphaBetaAccum ==
    /\ pc = "ab_ret"
    /\ alphabeta_nodes' = AddNodes(alphabeta_nodes, ai2.nodes)
    /\ readings2' = Append(readings2, ai2.nodes)
    /\ bi' = bi + 1
    /\ pc' = "board"
    /\ UNCHANGED <<depths, di, boards, genBoards, minimax_nodes, results, readings1,
                   passed1, passed2, ai1, ai2, res1, res2, engine, history>>
    /\ UNCHANGED others

\* The averages and the row of the depth.
Averages ==
    /\ pc = "board" /\ bi > Len(boards)
    /\ Len(boards) > 0
    /\ results' = Append(results,
                         ResultRow(depths[di], minimax_nodes, alphabeta_nodes, Len(boards)))
    /\ di' = di + 1
    /\ pc' = "depth"
    /\ UNCHANGED <<depths, boards, genBoards, bi, minimax_nodes, alphabeta_nodes,
                   readings1, readings2, passed1, passed2, ai1, ai2, res1, res2,
                   engine, history>>
    /\ UNCHANGED others

\* minimax_time / len(boards) with no boards: ZeroDivisionError.
AveragesDivZero ==
    /\ pc = "board" /\ bi > Len(boards)
    /\ Len(boards) = 0
    /\ pc' = "error"
    /\ UNCHANGED <<depths, di, boards, genBoards, bi, minimax_nodes, alphabeta_nodes,
                   results, readings1, readings2, passed1, passed2, ai1, ai2, res1,
                   res2, engine, history>>
    /\ UNCHANGED others

\* All depths done: the CSV is written and the summary printed.
SaveCsv ==
    /\ pc = "depth" /\ di > Len(depths)
    /\ pc' = "done"
    /\ UNCHANGED <<depths, di, boards, genBoards, bi, minimax_nodes, alphabeta_nodes,
                   results, readings1, readings2, passed1, passed2, ai1, ai2, res1,
                   res2, engine, history>>
    /\ UNCHANGED others

\* The steps of a running search.
Search ==
    \/ EnterLeaf
    \/ EnterInternal
    \/ NextChild
    \/ LoopEnd
    \/ ChildReturn
    \/ ChildReturnPrune

\* The steps of benchmark() on a non-empty list of boards.
Harness ==
    \/ DepthLoop
    \/ NewMinimax
    \/ MinimaxReturn
    \/ MinimaxAccum
    \/ NewAlphaBeta
    \/ AlphaBetaReturn
    \/ AlphaBetaAccum
    \/ Averages
    \/ SaveCsv

Next == Search \/ Harness \/ AveragesDivZero

\* ------------------------------------------------------------------------
\* generate_boards(): random mid-game samples
\* ------------------------------------------------------------------------
\* random.randint(8, 15): the length of a sample's move loop.
GenMinMoves == 8
GenMaxMoves == 15

\* n, the number of samples, and the highest column random.randint(0, 6)
\* is let to draw.
MaxSamples == 1
MaxGenCol == 1

GenCols == 0 .. MaxGenCol

\* Connect4Game(RandomAI(1), RandomAI(2), headless=True)
Connect4Game == [board |-> EmptyBoard, current_player |-> PLAYER1, game_over |-> FALSE]

\* game.make_move(col): an illegal column changes nothing; a legal one is
\* played by the player to move, ends the game on a win or a draw, and
\* otherwise hands the move to the opponent.
game_make_move(g, col) ==
    LET m == make_move(g.board, col, g.current_player)
    IN  IF ~m.ok THEN g
        ELSE IF is_game_over(m.board)
             THEN [g EXCEPT !.board = m.board, !.game_over = TRUE]
             ELSE [g EXCEPT !.board = m.board,
                            !.current_player = Other(g.current_player)]

NoMove == [checked |-> -1, played |-> -1, legal |-> TRUE]

\* if not game.game_over: boards.append(...), with the guard left out
KeepsAlways(g) == TRUE

\* if not game.game_over: boards.append(...)
Keeps(g) == ~g.game_over

\* for _ in range(n): a new game and a new move-loop length.
GenNewGame ==
    /\ pc = "gen" /\ gi < gn
    /\ game' = Connect4Game
    /\ \E total \in GenMinMoves .. GenMaxMoves : gk' = total
    /\ tried' = 0
    /\ lastMove' = NoMove
    /\ pc' = "gen_move"
    /\ UNCHANGED <<depths, di, boards, genBoards, bi, minimax_nodes, alphabeta_nodes,
                   results, readings1, readings2, passed1, passed2, ai1, ai2, res1,
                   res2, engine, history, gn, gi>>
    /\ UNCHANGED <<trainer, demo>>

\* One iteration whose test passes: the game is running and the column
\* drawn for is_valid_move is legal; make_move gets a column drawn anew.
GenMove ==
    /\ pc = "gen_move" /\ gk > 0
    /\ ~game.game_over
    /\ \E checked \in GenCols : \E played \in GenCols :
        /\ is_valid_move(game.board, checked)
        /\ lastMove' = [checked |-> checked, played |-> played,
                        legal |-> is_valid_move(game.board, played)]
        /\ game' = game_make_move(game, played)
    /\ gk' = gk - 1
    /\ tried' = tried + 1
    /\ UNCHANGED <<pc, depths, di, boards, genBoards, bi, minimax_nodes,
                   alphabeta_nodes, results, readings1, readings2, passed1, passed2,
                   ai1, ai2, res1, res2, engine, history, gn, gi>>
    /\ UNCHANGED <<trainer, demo>>

\* One iteration whose test fails: the game is over, or the column drawn
\* for is_valid_move is full.
GenSkip ==
    /\ pc = "gen_move" /\ gk > 0
    /\ \/ game.game_over
       \/ \E checked \in GenCols : ~is_valid_move(game.board, checked)
    /\ gk' = gk - 1
    /\ tried' = tried + 1
    /\ UNCHANGED <<pc, depths, di, boards, genBoards, bi, minimax_nodes,
                   alphabeta_nodes, results, readings1, readings2, passed1, passed2,
                   ai1, ai2, res1, res2, engine, history, game, gn, gi, lastMove>>
    /\ UNCHANGED <<trainer, demo>>

\* The move loop is done and the game is running: the board is kept.
GenKeep ==
    /\ pc = "gen_move" /\ gk = 0
    /\ Keeps(game)
    /\ boards' = Append(boards, game.board)
    /\ gi' = gi + 1
    /\ pc' = "gen"
    /\ UNCHANGED <<depths, di, genBoards, bi, minimax_nodes, alphabeta_nodes,
                   results, readings1, readings2, passed1, passed2, ai1, ai2, res1,
                   res2, engine, history, game, gn, gk, lastMove, tried>>
    /\ UNCHANGED <<trainer, demo>>

\* The move loop is done and the game is over: the sample is dropped.
GenDiscard ==
    /\ pc = "gen_move" /\ gk = 0
    /\ ~Keeps(game)
    /\ gi' = gi + 1
    /\ pc' = "gen"
    /\ UNCHANGED <<depths, di, boards, genBoards, bi, minimax_nodes, alphabeta_nodes,
                   results, readings1, readings2, passed1, passed2, ai1, ai2, res1,
                   res2, engine, history, game, gn, gk, lastMove, tried>>
    /\ UNCHANGED <<trainer, demo>>

\* return boards; benchmark() goes on to its loop over the depths.
GenReturn ==
    /\ pc = "gen" /\ gi = gn
    /\ genBoards' = boards
    /\ pc' = "depth"
    /\ UNCHANGED <<depths, di, boards, bi, minimax_nodes, alphabeta_nodes, results,
                   readings1, readings2, passed1, passed2, ai1, ai2, res1, res2,
                   engine, history, sampler>>
    /\ UNCHANGED <<trainer, demo>>

generate_boards ==
    \/ GenNewGame
    \/ GenMove
    \/ GenSkip
    \/ GenKeep
    \/ GenDiscard
    \/ GenReturn

\* generate_boards() is not running.
SamplerIdle ==
    /\ game = Connect4Game
    /\ gn = 0 /\ gi = 0 /\ gk = 0
    /\ lastMove = NoMove
    /\ tried = 0

\* ------------------------------------------------------------------------
\* train_rl.py: model names and resumed training
\* ------------------------------------------------------------------------
\* Strings are sequences of one-character strings.
Digits == <<"0", "1", "2", "3", "4", "5", "6", "7", "8", "9">>
DigitChars == {Digits[i] : i \in 1 .. 10}
DigitVal(ch) == (CHOOSE i \in 1 .. 10 : Digits[i] = ch) - 1

RECURSIVE Pow10(_)
Pow10(k) == IF k = 0 THEN 1 ELSE 10 * Pow10(k - 1)

\* str(num), num >= 0
RECURSIVE str(_)
str(num) ==
    IF num < 10 THEN <<Digits[num + 1]>>
    ELSE str(num \div 10) \o <<Digits[(num % 10) + 1]>>

\* f"{num / unit:.1f}": the quotient rounded to one decimal. (A quotient
\* that lies exactly between two tenths is rounded by its binary value in
\* the source and to the even tenth here.)
fixed1(num, unit) ==
    LET tenths == RoundDiv(num * 10, unit)
    IN  str(tenths \div 10) \o <<".">> \o str(tenths % 10)

format_games(num) ==
    IF num >= 1000000
    THEN IF num % 1000000 = 0
         THEN str(num \div 1000000) \o <<"M">>
         ELSE fixed1(num, 1000000) \o <<"M">>
    ELSE IF num >= 1000
    THEN IF num % 1000 = 0
         THEN str(num \div 1000) \o <<"k">>
         ELSE fixed1(num, 1000) \o <<"k">>
    ELSE str(num)

\* os.path.basename(filename)
basename(filename) ==
    LET slashes == {i \in 1 .. Len(filename) : filename[i] = "/"}
    IN  IF slashes = {} THEN filename
        ELSE SubSeq(filename, MaxOf(slashes) + 1, Len(filename))

\* .replace(".pt", "")
RECURSIVE replace_pt(_)
replace_pt(s) ==
    IF Len(s) < 3 THEN s
    ELSE IF SubSeq(s, 1, 3) = <<".", "p", "t">>
    THEN replace_pt(SubSeq(s, 4, Len(s)))
    ELSE <<Head(s)>> \o replace_pt(Tail(s))

\* s.split(sep)
RECURSIVE split(_, _)
split(s, sep) ==
    LET at == {i \in 1 .. Len(s) : s[i] = sep}
    IN  IF at = {} THEN <<s>>
        ELSE <<SubSeq(s, 1, MinOf(at) - 1)>>
             \o split(SubSeq(s, MinOf(at) + 1, Len(s)), sep)

endswith(s, ch) == Len(s) > 0 /\ s[Len(s)] = ch

\* The strings int() accepts, among strings of digits, points and letters.
IsIntLiteral(s) == Len(s) > 0 /\ \A i \in 1 .. Len(s) : s[i] \in DigitChars

\* The strings float() accepts, among strings of digits, points and letters
\* other than exponents and the names of special values.
IsFloatLiteral(s) ==
    /\ \A i \in 1 .. Len(s) : s[i] \in DigitChars \cup {"."}
    /\ Cardinality({i \in 1 .. Len(s) : s[i] = "."}) <= 1
    /\ \E i \in 1 .. Len(s) : s[i] \in DigitChars

RECURSIVE IntVal(_)
IntVal(s) ==
    IF s = <<>> THEN 0
    ELSE 10 * IntVal(SubSeq(s, 1, Len(s) - 1)) + DigitVal(s[Len(s)])

\* int(games_part[:-1]), not multiplied
KiloValueUnscaled(s) == IntVal(s)

\* int(games_part[:-1]) * 1000
KiloValue(s) == IntVal(s) * 1000

\* int(float(games_part[:-1]) * 1_000_000): the decimal value times one
\* million, truncated; a value that is no multiple of one half has no exact
\* binary form and its product can fall just below the decimal one.
MegaValues(s) ==
    LET points == {i \in 1 .. Len(s) : s[i] = "."}
        cut == IF points = {} THEN Len(s) + 1 ELSE MinOf(points)
        frac == SubSeq(s, cut + 1, Len(s))
        num == IntVal(SubSeq(s, 1, cut - 1) \o frac)
        den == Pow10(Len(frac))
        exact == (num * 1000000) \div den
    IN  IF (2 * num) % den = 0 THEN {exact} ELSE {exact - 1, exact}

Returns(v) == [raised |-> FALSE, value |-> v]
Raises == [raised |-> TRUE, value |-> 0]

\* The outcomes of read_games_from_filename(filename): the integer returned,
\* or the ValueError of an int() or float() outside the try block.
read_games_from_filename(filename) ==
    LET base == replace_pt(basename(filename))
        parts == split(base, "_")
    IN  IF Len(parts) < 4 THEN {Returns(0)}
        ELSE LET games_part == parts[3]
                 number == SubSeq(games_part, 1, Len(games_part) - 1)
             IN  IF endswith(games_part, "k")
                 THEN IF IsIntLiteral(number)
                      THEN {Returns(KiloValue(number))}
                      ELSE {Raises}
                 ELSE IF endswith(games_part, "M")
                 THEN IF IsFloatLiteral(number)
                      THEN {Returns(v) : v \in MegaValues(number)}
                      ELSE {Raises}
                 ELSE IF IsIntLiteral(games_part)
                      THEN {Returns(IntVal(games_part))}
                      ELSE {Returns(0)}

\* remaining, taken as the new total
new_games_total_remaining(already, left) == left

\* new_games_total = already_trained + remaining
new_games_total(already, left) == already + left

\* f"CNN_models/cnnrl_{mode}_{format_games(total)}_{epsilon_decay}.pt"
SavePath(m, total, eps) ==
    <<"C", "N", "N", "_", "m", "o", "d", "e", "l", "s", "/", "c", "n", "n", "r", "l", "_">> \o m \o <<"_">> \o format_games(total) \o <<"_">> \o eps
        \o <<".", "p", "t">>

\* already_trained = read_games_from_filename(model_path)
ReadGames ==
    /\ tpc = "start"
    /\ \E o \in read_games_from_filename(model_path) :
        /\ ~o.raised
        /\ already_trained' = o.value
    /\ tpc' = "load"
    /\ UNCHANGED <<model_path, target_total_games, train_mode, epsilon_decay,
                   remaining, train_calls, save_calls, named_total>>
    /\ UNCHANGED <<bench, sampler, demo>>

\* read_games_from_filename(model_path) raises: train_resumable() ends with
\* the exception.
ReadGamesRaises ==
    /\ tpc = "start"
    /\ \E o \in read_games_from_filename(model_path) : o.raised
    /\ tpc' = "raised"
    /\ UNCHANGED <<model_path, target_total_games, train_mode, epsilon_decay,
                   already_trained, remaining, train_calls, save_calls, named_total>>
    /\ UNCHANGED <<bench, sampler, demo>>

\* The model is loaded and remaining = max(0, target_total_games -
\* already_trained).
LoadModel ==
    /\ tpc = "load"
    /\ remaining' = Max2(0, target_total_games - already_trained)
    /\ tpc' = "decide"
    /\ UNCHANGED <<model_path, target_total_games, train_mode, epsilon_decay,
                   already_trained, train_calls, save_calls, named_total>>
    /\ UNCHANGED <<bench, sampler, demo>>

\* if remaining == 0: return
AlreadyTrained ==
    /\ tpc = "decide"
    /\ remaining = 0
    /\ tpc' = "returned"
    /\ UNCHANGED <<model_path, target_total_games, train_mode, epsilon_decay,
                   already_trained, remaining, train_calls, save_calls, named_total>>
    /\ UNCHANGED <<bench, sampler, demo>>

\* rl.train(num_games=remaining, mode=mode)
Train ==
    /\ tpc = "decide"
    /\ remaining # 0
    /\ train_calls' = Append(train_calls, remaining)
    /\ tpc' = "trained"
    /\ UNCHANGED <<model_path, target_total_games, train_mode, epsilon_decay,
                   already_trained, remaining, save_calls, named_total>>
    /\ UNCHANGED <<bench, sampler, demo>>

\* rl.save_model(save_path)
SaveModel ==
    /\ tpc = "trained"
    /\ save_calls' = Append(save_calls,
            SavePath(train_mode, new_games_total(already_trained, remaining),
                     epsilon_decay))
    /\ tpc' = "returned"
    /\ UNCHANGED <<model_path, target_total_games, train_mode, epsilon_decay,
                   already_trained, remaining, train_calls, named_total>>
    /\ UNCHANGED <<bench, sampler, demo>>

train_resumable ==
    \/ ReadGames
    \/ ReadGamesRaises
    \/ LoadModel
    \/ AlreadyTrained
    \/ Train
    \/ SaveModel

\* train_resumable() is not running.
TrainerIdle ==
    /\ tpc = "idle"
    /\ model_path = <<>>
    /\ target_total_games = 0
    /\ train_mode = <<>>
    /\ epsilon_decay = <<>>
    /\ already_trained = 0
    /\ remaining = 0
    /\ train_calls = <<>>
    /\ save_calls = <<>>
    /\ named_total = -1

\* ------------------------------------------------------------------------
\* demo.py: the menus
\* ------------------------------------------------------------------------
\* Games started and .pkl files listed, at most.
MaxGames == 2
MaxFiles == 2

\* What input().strip() can return at a menu: its options and another line.
MainChoices == {"1", "2", "3", "4", "x"}
AiChoices == {"1", "2", "3", "4", "5", "x"}

None == [kind |-> "None", q_table |-> 0]
RandomAI == [kind |-> "RandomAI", q_table |-> 0]
HeuristicAI == [kind |-> "HeuristicAI", q_table |-> 0]
ReinforcementLearningAI(file) == [kind |-> "ReinforcementLearningAI", q_table |-> file]

\* game = Connect4Game(player1_ai=p1, player2_ai=p2); game.run()
RunGame(by, p1, p2) ==
    /\ Len(games) < MaxGames
    /\ games' = Append(games, [by |-> by, player1_ai |-> p1, player2_ai |-> p2])
    /\ dpc' = "run"

\* main(): choice "1", human_vs_human()
MainHumanVsHuman ==
    /\ dpc = "main"
    /\ choice' = "1"
    /\ printed' = "Starting Human vs Human game..."
    /\ RunGame("human_vs_human", None, None)
    /\ UNCHANGED <<ai_player, files>>
    /\ UNCHANGED <<bench, sampler, trainer>>

\* main(): choice "2", human_vs_ai() prints its menu.
MainHumanVsAi ==
    /\ dpc = "main"
    /\ choice' = "2"
    /\ printed' = "5. Exit"
    /\ dpc' = "human_vs_ai"
    /\ UNCHANGED <<ai_player, files, games>>
    /\ UNCHANGED <<bench, sampler, trainer>>

\* main(): choice "3", ai_vs_ai()
MainAiVsAi ==
    /\ dpc = "main"
    /\ choice' = "3"
    /\ printed' = "Starting AI vs AI game..."
    /\ RunGame("ai_vs_ai", RandomAI, RandomAI)
    /\ UNCHANGED <<ai_player, files>>
    /\ UNCHANGED <<bench, sampler, trainer>>

\* main(): choice "4", break
MainExit ==
    /\ dpc = "main"
    /\ choice' = "4"
    /\ printed' = "Goodbye!"
    /\ dpc' = "exit"
    /\ UNCHANGED <<ai_player, files, games>>
    /\ UNCHANGED <<bench, sampler, trainer>>

\* main(): any other line, the loop reads again.
MainInvalid ==
    /\ dpc = "main"
    /\ \E c \in MainChoices \ {"1", "2", "3", "4"} : choice' = c
    /\ printed' = "Invalid choice. Please select 1-4."
    /\ UNCHANGED <<dpc, ai_player, files, games>>
    /\ UNCHANGED <<bench, sampler, trainer>>

\* human_vs_ai(): choice "1" or "2", exit(); SystemExit is no Exception,
\* so main() does not catch it.
HvaNotImplemented ==
    /\ dpc = "human_vs_ai"
    /\ \E c \in {"1", "2"} : choice' = c
    /\ ai_player' = None
    /\ printed' = "Not yet implemented"
    /\ dpc' = "exit"
    /\ UNCHANGED <<files, games>>
    /\ UNCHANGED <<bench, sampler, trainer>>

\* human_vs_ai(): choice "3" and choose_qtable() finds no file: return.
HvaNoModel ==
    /\ dpc = "human_vs_ai"
    /\ files = 0
    /\ choice' = "3"
    /\ ai_player' = None
    /\ printed' = "Returning to menu"
    /\ dpc' = "main"
    /\ UNCHANGED <<files, games>>
    /\ UNCHANGED <<bench, sampler, trainer>>

\* human_vs_ai(): choice "3" and choose_qtable() lists the files.
HvaListModels ==
    /\ dpc = "human_vs_ai"
    /\ files > 0
    /\ choice' = "3"
    /\ ai_player' = None
    /\ printed' = "Available Reinforcement Learning Models:"
    /\ dpc' = "choose_qtable"
    /\ UNCHANGED <<files, games>>
    /\ UNCHANGED <<bench, sampler, trainer>>

\* choose_qtable(): a line that is no number from 1 to len(files).
QtableInvalid ==
    /\ dpc = "choose_qtable"
    /\ choice' = "x"
    /\ printed' = "Invalid choice. Please select a valid model number."
    /\ UNCHANGED <<dpc, ai_player, files, games>>
    /\ UNCHANGED <<bench, sampler, trainer>>

\* choose_qtable() returns a file; human_vs_ai() loads it and falls to the
\* lines that start the game.
QtableChosen ==
    /\ dpc = "choose_qtable"
    /\ \E n \in 1 .. files :
        /\ choice' = Digits[n + 1]
        /\ ai_player' = ReinforcementLearningAI(n)
        /\ RunGame("human_vs_ai", None, ReinforcementLearningAI(n))
    /\ printed' = "Starting Human vs AI game..."
    /\ UNCHANGED files
    /\ UNCHANGED <<bench, sampler, trainer>>

\* human_vs_ai(): choice "4", then the lines that start the game.
HvaHeuristic ==
    /\ dpc = "human_vs_ai"
    /\ choice' = "4"
    /\ ai_player' = HeuristicAI
    /\ printed' = "Starting Human vs AI game..."
    /\ RunGame("human_vs_ai", None, HeuristicAI)
    /\ UNCHANGED files
    /\ UNCHANGED <<bench, sampler, trainer>>

\* human_vs_ai(): choice "5" prints "Goodbye!", any other line prints
\* "Invalid choice. Please select 1-5."; neither branch returns, so the
\* lines after the if chain start the game with ai_player = None.
HvaFallThrough ==
    /\ dpc = "human_vs_ai"
    /\ \E c \in AiChoices \ {"1", "2", "3", "4"} : choice' = c
    /\ ai_player' = None
    /\ printed' = "Starting Human vs AI game..."
    /\ RunGame("human_vs_ai", None, None)
    /\ UNCHANGED files
    /\ UNCHANGED <<bench, sampler, trainer>>

\* game.run() returns, or raises an Exception that main() prints: the menu
\* loop reads the next line.
GameEnds ==
    /\ dpc = "run"
    /\ dpc' = "main"
    /\ UNCHANGED <<choice, ai_player, files, printed, games>>
    /\ UNCHANGED <<bench, sampler, trainer>>

\* KeyboardInterrupt while main() waits for a line or a game: break.
Interrupt ==
    /\ dpc \in {"main", "human_vs_ai", "choose_qtable", "run"}
    /\ printed' = "Goodbye!"
    /\ dpc' = "exit"
    /\ UNCHANGED <<choice, ai_player, files, games>>
    /\ UNCHANGED <<bench, sampler, trainer>>

main ==
    \/ MainHumanVsHuman
    \/ MainHumanVsAi
    \/ MainAiVsAi
    \/ MainExit
    \/ MainInvalid
    \/ HvaNotImplemented
    \/ HvaNoModel
    \/ HvaListModels
    \/ QtableInvalid
    \/ QtableChosen
    \/ HvaHeuristic
    \/ HvaFallThrough
    \/ GameEnds
    \/ Interrupt

\* demo.py is not running.
DemoIdle ==
    /\ dpc = "idle"
    /\ choice = ""
    /\ ai_player = None
    /\ files = 0
    /\ printed = ""
    /\ games = <<>>

\* benchmark() is not running.
BenchIdle ==
    /\ pc = "idle"
    /\ depths = <<>>
    /\ di = 1
    /\ boards = <<>>
    /\ genBoards = <<>>
    /\ bi = 1
    /\ minimax_nodes = 0 /\ alphabeta_nodes = 0
    /\ results = <<>>
    /\ readings1 = <<>> /\ readings2 = <<>>
    /\ ai1 = Unbound /\ ai2 = Unbound
    /\ res1 = NoRet /\ res2 = NoRet
    /\ stack = <<>>
    /\ mode = "idle"
    /\ call = NoCall
    /\ ret = NoRet
    /\ calls = 0 /\ prunes = 0 /\ skipped = 0
    /\ passed1 = EmptyBoard /\ passed2 = EmptyBoard

InitWith(ds, bs) ==
    /\ pc = "depth"
    /\ SamplerIdle
    /\ TrainerIdle
    /\ DemoIdle
    /\ depths = ds
    /\ di = 1
    /\ boards = bs
    /\ genBoards = bs
    /\ bi = 1
    /\ minimax_nodes = 0 /\ alphabeta_nodes = 0
    /\ results = <<>>
    /\ readings1 = <<>> /\ readings2 = <<>>
    /\ ai1 = Unbound /\ ai2 = Unbound
    /\ res1 = NoRet /\ res2 = NoRet
    /\ stack = <<>>
    /\ mode = "idle"
    /\ call = NoCall
    /\ ret = NoRet
    /\ calls = 0 /\ prunes = 0 /\ skipped = 0
    /\ passed1 = EmptyBoard /\ passed2 = EmptyBoard

\* ------------------------------------------------------------------------
\* Specifications
\* ------------------------------------------------------------------------
\* Games generate_boards() can have played: at most 15 moves, no winner.
SampleGames ==
    << <<3, 3, 3, 3, 4, 3, 3, 4, 5, 4, 4, 4, 4, 5>>,
       <<0, 2, 0, 3, 3, 3, 3, 1, 3, 0, 3, 0, 0, 0>>,
       <<4, 2, 4, 3, 3, 4, 4, 3, 3, 1, 3, 3, 4, 4>> >>

MaxBoards == 2

SampleBoard(i) == Position(SampleGames[((i - 1) % Len(SampleGames)) + 1])

\* benchmark(): the depths of the source, on a list of sampled boards.
Init ==
    \E n \in 0 .. MaxBoards : \E start \in 1 .. Len(SampleGames) :
        InitWith(DEPTHS, [i \in 1 .. n |-> SampleBoard(start + i - 1)])

Spec == Init /\ [][Next]_vars

\* Whole games that end in a draw, and openings: every prefix is a position
\* a game can be in when a seat's get_move is called.
DrawnGames ==
    { <<4, 3, 6, 0, 1, 4, 5, 5, 1, 1, 5, 0, 1, 6, 0, 1, 5, 5, 1, 0, 4,
        6, 3, 2, 6, 6, 0, 4, 6, 5, 2, 0, 4, 2, 4, 2, 2, 2, 3, 3, 3, 3>>,
      <<0, 5, 2, 1, 3, 5, 1, 5, 0, 3, 6, 0, 6, 2, 3, 3, 3, 4, 5, 1, 3,
        2, 4, 5, 0, 5, 4, 4, 0, 0, 4, 4, 2, 2, 2, 6, 1, 1, 1, 6, 6, 6>>,
      <<3, 4, 6, 4, 3, 3, 2, 1, 4, 2, 6, 0, 4, 4, 2, 0, 2, 1, 6, 3, 5,
        6, 0, 1, 6, 2, 5, 5, 6, 4, 1, 2, 1, 5, 5, 1, 0, 5, 3, 0, 3, 0>> }

Openings == { <<>>, <<2, 2, 3, 3, 4, 4>> }

MaxEmpty == 17
MaxDepth == 3

EnginePositions ==
    { Position(SubSeq(g, 1, k)) :
        g \in DrawnGames, k \in (Rows * Cols - MaxEmpty) .. (Rows * Cols - 1) }
    \cup { Position(o) : o \in Openings }

\* One Minimax and one Alpha-Beta get_move on the same position, at any
\* depth from 1 to MaxDepth.
InitEngine ==
    \E d \in 1 .. MaxDepth : \E b \in EnginePositions :
        /\ ~is_game_over(b)
        /\ InitWith(<<d>>, <<b>>)

SpecEngine == InitEngine /\ [][Search \/ Harness]_vars

\* benchmark() from its first line: generate_boards() draws the samples, the
\* loop over the depths starts, and averages are taken when no board is
\* left to search (the searches of a non-empty list are in Spec).
InitGen ==
    \E n \in 1 .. MaxSamples :
        /\ pc = "gen"
        /\ depths = DEPTHS
        /\ di = 1
        /\ boards = <<>>
        /\ genBoards = <<>>
        /\ bi = 1
        /\ minimax_nodes = 0 /\ alphabeta_nodes = 0
        /\ results = <<>>
        /\ readings1 = <<>> /\ readings2 = <<>>
        /\ ai1 = Unbound /\ ai2 = Unbound
        /\ res1 = NoRet /\ res2 = NoRet
        /\ stack = <<>>
        /\ mode = "idle"
        /\ call = NoCall
        /\ ret = NoRet
        /\ calls = 0 /\ prunes = 0 /\ skipped = 0
        /\ passed1 = EmptyBoard /\ passed2 = EmptyBoard
        /\ game = Connect4Game
        /\ gn = n /\ gi = 0 /\ gk = 0
        /\ lastMove = NoMove
        /\ tried = 0
        /\ TrainerIdle
        /\ DemoIdle

SpecGen == InitGen /\ [][generate_boards \/ DepthLoop \/ AveragesDivZero]_vars

\* The modes of --mode and the epsilon decays a name is written with.
Modes == { <<"r", "a", "n", "d", "o", "m">>,
           <<"s", "e", "l", "f">>,
           <<"h", "e", "u", "r", "i", "s", "t", "i", "c">> }
EpsilonDecays == { <<"0", ".", "9", "9", "9", "9", "9", "5">> }

\* Game counts: up to MaxLead units of 1, 100, 1000, 100000 and 1000000
\* games, and one game less or more.
MaxLead == 15
Units == <<1, 100, 1000, 100000, 1000000>>
GameCounts ==
    {d * Units[u] + j : d \in 0 .. MaxLead, u \in 1 .. Len(Units), j \in -1 .. 1}
        \ {-1}
Targets == {d * Units[u] : d \in 0 .. MaxLead, u \in 1 .. Len(Units)}

\* Files not named by train_rl.py.
OtherNames ==
    { <<"m", "o", "d", "e", "l", ".", "p", "t">>,
      <<"C", "N", "N", "_", "m", "o", "d", "e", "l", "s", "/", "c", "n", "n", "r", "l", "_", "r", "a", "n", "d", "o", "m", "_", "f", "i", "n", "a", "l", "_", "0", ".", "9", "9", ".", "p", "t">>,
      <<"c", "n", "n", "r", "l", "_", "s", "e", "l", "f", "_", "k", "_", "0", ".", "9", "9", ".", "p", "t">>,
      <<"c", "n", "n", "r", "l", "_", "s", "e", "l", "f", "_", "m", "a", "x", "M", "_", "0", ".", "9", "9", ".", "p", "t">> }

\* train_resumable(model_path, target_total_games, mode, epsilon_decay, _)
\* on a model named after a game count, or named otherwise.
InitTrain ==
    /\ BenchIdle
    /\ SamplerIdle
    /\ DemoIdle
    /\ tpc = "start"
    /\ train_mode \in Modes
    /\ epsilon_decay \in EpsilonDecays
    /\ target_total_games \in Targets
    /\ \/ /\ named_total \in GameCounts
          /\ model_path = SavePath(train_mode, named_total, epsilon_decay)
       \/ /\ named_total = -1
          /\ model_path \in OtherNames
    /\ already_trained = 0
    /\ remaining = 0
    /\ train_calls = <<>>
    /\ save_calls = <<>>

SpecTrain == InitTrain /\ [][train_resumable]_vars

\* main() of demo.py, with up to MaxFiles saved models in qtables/.
InitDemo ==
    /\ BenchIdle
    /\ SamplerIdle
    /\ TrainerIdle
    /\ dpc = "main"
    /\ choice = ""
    /\ ai_player = None
    /\ files \in 0 .. MaxFiles
    /\ printed = "4. Exit"
    /\ games = <<>>

SpecDemo == InitDemo /\ [][main]_vars

\* ------------------------------------------------------------------------
\* Reference computations used by the properties
\* ------------------------------------------------------------------------
\* The number of invocations of the unpruned recursion on b: one for the
\* position itself and, unless it is a leaf, those of every legal child.
RECURSIVE TreeSize(_, _, _, _)
RECURSIVE TreeSizeFrom(_, _, _, _, _)
TreeSize(b, depth, is_max, player_id) ==
    IF IsLeaf(b, depth) THEN 1
    ELSE 1 + TreeSizeFrom(b, depth, is_max, player_id, 0)

TreeSizeFrom(b, depth, is_max, player_id, c) ==
    IF c >= Cols THEN 0
    ELSE (IF is_valid_move(b, c)
          THEN TreeSize(make_move(b, c, IF is_max THEN player_id ELSE Other(player_id)).board,
                        depth - 1, ~is_max, player_id)
          ELSE 0)
         + TreeSizeFrom(b, depth, is_max, player_id, c + 1)

\* The columns where p completes four in a row at once.
ImmediateWins(b, p) ==
    {c \in ColIdx : is_valid_move(b, c) /\ HasFour(make_move(b, c, p).board, p)}

\* b after the pending moves of the first n activation records.
RECURSIVE ApplyPath(_, _, _, _)
ApplyPath(b, frames, n, player_id) ==
    IF n = 0 THEN b
    ELSE make_move(ApplyPath(b, frames, n - 1, player_id),
                   frames[n].col, Mover(frames[n], player_id)).board

\* The move of the top record is applied while its child runs or has just
\* returned, and is not while the loop is between children.
Pending == IF mode = "loop" THEN Len(stack) - 1 ELSE Len(stack)

RECURSIVE SumSeq(_)
SumSeq(q) == IF q = <<>> THEN 0 ELSE Head(q) + SumSeq(Tail(q))

BothReturned == pc = "ab_ret"

\* ------------------------------------------------------------------------
\* Properties
\* ------------------------------------------------------------------------

\* C1: when both searches have returned on the same board and depth, the
\* Alpha-Beta search returned the column and the root score the Minimax
\* search returned.
C1_AlphaBetaEqualsMinimax ==
    BothReturned => (res2.col = res1.col /\ res2.score = res1.score)

C1_Witness ==
    /\ BothReturned
    /\ skipped > 0
    /\ res2 = res1
    /\ res1.col > NextValid(passed1, -1)
    /\ res1.score \notin {WinScore, 0, -WinScore}

\* C2: get_move leaves the board as it received it.  While a search runs the
\* board is the board received plus the pending moves of the call chain, on
\* every step including the returns taken when alpha >= beta; when get_move
\* has returned every cell is as it was at the call.
C2_BoardRestored ==
    /\ Searching => Board = ApplyPath(genBoards[BoardIdx], stack, Pending, Active.player_id)
    /\ ~Searching => boards = genBoards

C2_Witness ==
    /\ pc = "ab_ret"
    /\ prunes > 0
    /\ ai2.nodes > 1
    /\ boards[bi] = passed2

\* C3: every invocation of the recursive step, leaf or internal, adds one to
\* nodes: the counter equals the number of invocations entered so far, and
\* when Minimax get_move has returned it equals the size of the game tree
\* to the search depth.
C3_NodesCountInvocations ==
    /\ pc \in {"mm", "mm_ret"} => ai1.nodes = calls
    /\ pc \in {"ab", "ab_ret"} => ai2.nodes = calls
    /\ pc = "mm_ret" => ai1.nodes = TreeSize(passed1, ai1.depth, TRUE, ai1.player_id)

C3_Witness ==
    /\ pc = "mm_ret"
    /\ ai1.nodes = calls
    /\ ai1.nodes > Cols + 1

\* C4: one Alpha-Beta get_move enters no more invocations than the Minimax
\* get_move on the same board and depth; the accumulated alphabeta_nodes
\* never exceeds minimax_nodes and no row has a negative Nodes_Saved_Percent.
C4_AlphaBetaNoMoreNodes ==
    /\ BothReturned => ai2.nodes <= ai1.nodes
    /\ alphabeta_nodes <= minimax_nodes
    /\ \A i \in 1 .. Len(results) : results[i].Nodes_Saved_Percent >= 0

C4_Witness ==
    /\ pc = "done"
    /\ Len(boards) > 1
    /\ \A i \in 1 .. Len(results) :
          /\ results[i].Nodes_Saved_Percent > 0
          /\ results[i].AlphaBeta_Nodes < results[i].Minimax_Nodes

\* C5 as stated: whenever alpha >= beta held after some child during the
\* Alpha-Beta search, its node count is strictly below the Minimax count.
C5_AnyPruneStrictlyFewer ==
    (BothReturned /\ prunes > 0) => ai2.nodes < ai1.nodes

\* C5 amended: whenever a pruning return cut off at least one legal sibling,
\* the Alpha-Beta count is strictly below the Minimax count; when
\* alpha >= beta only ever held after the last legal child, they are equal.
C5_CutSiblingStrictlyFewer ==
    /\ (BothReturned /\ skipped > 0) => ai2.nodes < ai1.nodes
    /\ (BothReturned /\ skipped = 0) => ai2.nodes = ai1.nodes

C5_Witness ==
    /\ BothReturned
    /\ skipped > 0
    /\ prunes > skipped
    /\ ai2.nodes < ai1.nodes
    /\ ai2.nodes > 1

C7_UndoRoundTrip ==
    Searching =>
        \A c \in ColIdx : \A p \in {PLAYER1, PLAYER2} :
            is_valid_move(Board, c) =>
                LET m == make_move(Board, c, p)
                    u == undo_move(m.board, c)
                IN  /\ m.ok
                    /\ Height(m.board, c) = Height(Board, c) + 1
                    /\ ~u.raised
                    /\ u.board = Board
                    /\ \A k \in ColIdx : Height(u.board, k) = Height(Board, k)

C7_Witness ==
    /\ Searching
    /\ mode = "loop"
    /\ Top.col \in ColIdx
    /\ Height(Board, Top.col) > 1
    /\ Height(Board, Top.col) < Rows

\* C8: on every board a search reaches, make_move on a column outside 0..6
\* or with an occupied top cell returns false and changes no cell; on a
\* valid column it returns true and changes exactly one cell, the lowest
\* empty cell of that column, to the player's token.
C8_MakeMoveContract ==
    Searching =>
        \A c \in -1 .. Cols : \A p \in {PLAYER1, PLAYER2} :
            LET m == make_move(Board, c, p)
                invalid == c < 0 \/ c >= Cols \/ Board[0][c] # 0
                changed == {rc \in RowIdx \X ColIdx :
                               m.board[rc[1]][rc[2]] # Board[rc[1]][rc[2]]}
            IN  IF invalid
                THEN ~m.ok /\ m.board = Board
                ELSE /\ m.ok
                     /\ \E r \in RowIdx :
                           /\ changed = {<<r, c>>}
                           /\ Board[r][c] = 0
                           /\ m.board[r][c] = p
                           /\ \A r2 \in RowIdx : r2 > r => Board[r2][c] # 0

C8_Witness ==
    /\ Searching
    /\ mode = "call"
    /\ \E c \in ColIdx : ~is_valid_move(Board, c)
    /\ \E c \in ColIdx : is_valid_move(Board, c) /\ Height(Board, c) > 0
    /\ Len(stack) > 1

\* C9: each get_move runs on a new instance whose counter is 0, so the
\* reading taken when it returns is the invocation count of that one search;
\* the totals of a depth start at 0 and are the sums of the readings taken
\* for the boards done so far at that depth, one per board and variant.
C9_FreshCountersAndSums ==
    /\ (pc = "mm" /\ calls = 0) => ai1.nodes = 0
    /\ (pc = "ab" /\ calls = 0) => ai2.nodes = 0
    /\ pc = "mm_ret" => ai1.nodes = calls
    /\ pc = "ab_ret" => ai2.nodes = calls
    /\ (pc = "board" /\ bi = 1) => (minimax_nodes = 0 /\ alphabeta_nodes = 0)
    /\ pc \in {"board", "mm", "mm_ret", "ab_new", "ab", "ab_ret"} =>
          /\ minimax_nodes = SumSeq(readings1)
          /\ alphabeta_nodes = SumSeq(readings2)
          /\ Len(readings1) = (IF pc \in {"ab_new", "ab", "ab_ret"} THEN bi ELSE bi - 1)
          /\ Len(readings2) = bi - 1
    /\ pc = "board" =>
          \A i \in 1 .. Len(readings1) :
              readings1[i] = TreeSize(genBoards[i], depths[di], TRUE, PLAYER1)

C9_Witness ==
    /\ pc = "board"
    /\ di = Len(depths)
    /\ bi > Len(boards)
    /\ Len(readings1) > 1
    /\ minimax_nodes > readings1[Len(readings1)]
    /\ alphabeta_nodes > readings2[Len(readings2)]

\* C10: at every depth of 3, 4, 5 and for every board of the one generated
\* list, the board handed to CountingAlphaBeta.get_move equals, cell for
\* cell, the board handed to CountingMinimax.get_move and the board as
\* generated; every depth searches every board with both variants.
C10_SameBoardsBothVariants ==
    /\ depths = <<3, 4, 5>>
    /\ pc \in {"mm", "mm_ret", "ab_new"} => passed1 = genBoards[bi]
    /\ pc \in {"ab", "ab_ret"} => (passed2 = passed1 /\ passed2 = genBoards[bi])
    /\ (pc = "depth" /\ di > 1) =>
          (Len(readings1) = Len(boards) /\ Len(readings2) = Len(boards))
    /\ pc = "done" => [i \in 1 .. Len(results) |-> results[i].Depth] = <<3, 4, 5>>

C10_Witness ==
    /\ pc = "ab"
    /\ di = Len(depths)
    /\ bi = 2
    /\ genBoards[1] # genBoards[2]
    /\ passed2 = genBoards[2]

\* ------------------------------------------------------------------------
\* generate_boards() and the samples it returns
\* ------------------------------------------------------------------------
Sampling == pc \in {"gen", "gen_move"}

\* C11: every make_move call of generate_boards() is handed a column for
\* which is_valid_move holds in the position it is played in, and a sample
\* runs at most 15 iterations of its move loop.
C11_OnlyLegalMoves ==
    /\ lastMove.legal
    /\ tried <= GenMaxMoves

\* C12: every board generate_boards() keeps, and so every board benchmark()
\* hands to get_move, has no winner and at least one legal column.
C12_NoTerminalBoard ==
    \A i \in DOMAIN boards :
        /\ check_winner(boards[i]) = 0
        /\ \E c \in ColIdx : is_valid_move(boards[i], c)

\* A kept sample whose game went through a make_move call on a full column.
C12_Witness ==
    /\ pc = "depth"
    /\ Len(boards) = 1
    /\ \E c \in ColIdx : ~is_valid_move(boards[1], c)
    /\ ~lastMove.legal
    /\ ~game.game_over

\* C16: generate_boards(n) returns at least 1 and at most n boards, and the
\* averages of benchmark() never divide by zero.
C16_NonEmptySample ==
    /\ ~Sampling => (Len(boards) >= 1 /\ Len(boards) <= gn)
    /\ pc # "error"

\* ------------------------------------------------------------------------
\* train_rl.py: resumed training and model names
\* ------------------------------------------------------------------------
\* The counts format_games writes without a decimal point.
WholeLabel(n) ==
    \/ n < 1000
    \/ n < 1000000 /\ n % 1000 = 0
    \/ n % 1000000 = 0

\* C13: train_resumable() trains max(0, target_total_games - already_trained)
\* games; when the target is above already_trained it saves once, after
\* the training, under the name written from target_total_games; when it
\* is not, it neither trains nor saves.
C13_TrainsRemainingSavesOnce ==
    /\ Len(save_calls) <= Len(train_calls)
    /\ tpc # "returned" => save_calls = <<>>
    /\ tpc \in {"trained", "returned"} =>
        SumSeq(train_calls) = Max2(0, target_total_games - already_trained)
    /\ tpc = "returned" =>
        IF target_total_games > already_trained
        THEN /\ train_calls = <<target_total_games - already_trained>>
             /\ save_calls =
                    <<SavePath(train_mode, target_total_games, epsilon_decay)>>
        ELSE train_calls = <<>> /\ save_calls = <<>>

\* A model of 500k games resumed to 1.5M games.
C13_Witness ==
    /\ tpc = "returned"
    /\ already_trained = 500000
    /\ target_total_games = 1500000
    /\ train_calls = <<1000000>>
    /\ Len(save_calls) = 1
    /\ split(replace_pt(basename(save_calls[1])), "_")[3] = <<"1", ".", "5", "M">>

\* C14: for every mode and every count n that format_games writes as a
\* whole number, read_games_from_filename of the name written from n
\* returns n.
C14_WholeLabelRoundTrip ==
    (tpc # "start" /\ named_total >= 0 /\ WholeLabel(named_total)) =>
        /\ tpc # "raised"
        /\ already_trained = named_total

\* The name of 15M games of heuristic training has been read.
C14_Witness ==
    /\ tpc = "load"
    /\ train_mode = <<"h", "e", "u", "r", "i", "s", "t", "i", "c">>
    /\ named_total = 15000000
    /\ split(replace_pt(basename(model_path)), "_")[3] = <<"1", "5", "M">>
    /\ already_trained = 15000000

\* C15: read_games_from_filename never raises, and returns 0 for a name of
\* fewer than four fields.
C15_ReadNeverRaises ==
    /\ tpc # "raised"
    /\ (tpc \notin {"start", "raised"}
            /\ Len(split(replace_pt(basename(model_path)), "_")) < 4) =>
        already_trained = 0

\* ------------------------------------------------------------------------
\* demo.py: human_vs_ai()
\* ------------------------------------------------------------------------
\* C17: human_vs_ai() constructs and runs a game only after an AI opponent
\* has been selected; after option 5 or an invalid choice no game of
\* human_vs_ai() is running.
C17_GameOnlyWithOpponent ==
    /\ \A i \in DOMAIN games :
        games[i].by = "human_vs_ai" => games[i].player2_ai # None
    /\ (dpc = "run" /\ games[Len(games)].by = "human_vs_ai") =>
        choice \notin {"5", "x"}

====
